---------------------------- MODULE Spec2Model ----------------------------
(***************************************************************************)
(* Job board REST backend (job_board_api/api): identities, job listings,   *)
(* applications and saved jobs held in one relational store, and the       *)
(* request handlers that read and write them.                              *)
(*                                                                         *)
(* Every handler is one action, except apply and save: their existence     *)
(* check and their INSERT are two database statements with no lock held    *)
(* between them, so each is a Begin step (permission, lookup, existence    *)
(* check, payload validation) and an Insert step, and other requests may   *)
(* run in between.                                                         *)
(*                                                                         *)
(* Spec runs every handler from a small store.  QuerySpec runs the two     *)
(* list views, and the requests that write the rows they read, from a      *)
(* store with two listings and two job seekers.  PolicySpec applies the    *)
(* authorization policy of the listing viewset to every combination of     *)
(* identity, action, HTTP verb and listing.                                *)
(***************************************************************************)
EXTENDS Integers, Sequences, FiniteSets, TLC

\* Bounds of the model.
MaxOps == 3          \* responses produced in one behaviour
MaxListings == 2     \* listing ids handed out by the store

\* Values.
Null == "NULL"       \* SQL NULL / Python None
Absent == "ABSENT"   \* a key the request payload does not carry
Employers == {1, 2}
Seekers == {3}
UserIds == Employers \cup Seekers
ListingIds == 1..MaxListings
Slots == {1, 2}      \* requests that can be in flight between check and insert
Titles == {"Backend Developer"}
NewUserIds == {4}    \* primary keys left for identities that register
KeySet == {"key1", "key2", "key3", "key4"}   \* token keys the generator can draw
SAFE_METHODS == {"GET", "HEAD", "OPTIONS"}

VARIABLES
    users,          \* User rows: id -> [user_type, company, skills, email, password]
    listings,       \* JobListing rows: id -> [title, company_name, employer, is_active]
    next_job_id,    \* the next JobListing primary key
    applications,   \* JobApplication rows in creation order
    saved_jobs,     \* SavedJob rows in creation order
    reqs,           \* apply/save requests between their check and their insert
    outbox,         \* mails handed to send_mail, in order
    last,           \* the response of the request that completed last
    nops,           \* responses produced so far
    tokens,         \* authtoken Token rows: [key, user]
    next_user_id    \* the next User primary key

vars == <<users, listings, next_job_id, applications, saved_jobs, reqs, outbox,
          last, nops, tokens, next_user_id>>

\* The credential tables, which only register and login write.
auth == <<tokens, next_user_id>>

-----------------------------------------------------------------------------
\* Responses.

Resp(op, user, job, status, detail) ==
    [op |-> op, user |-> user, job |-> job, status |-> status, detail |-> detail]

NoResp == Resp("none", 0, 0, 0, "")
Idle == [pc |-> "idle", op |-> "none", user |-> 0, job |-> 0]

Forbidden == "You do not have permission to perform this action."
NotFound == "Not found."
Invalid == "validation errors"
IntegrityError == "IntegrityError"
MailError == "SMTPException"
JobNotFoundOrInactive == "Job not found or inactive."
AlreadyApplied == "You have already applied to this job."
JobNotFound == "Job not found."
AlreadySaved == "Job already saved."

-----------------------------------------------------------------------------
\* Storage layer.

Exists(id) == id \in DOMAIN listings

\* Mutant: the lookup of apply forgets is_active=True.
ActiveLookup_AnyListing(id) == id \in DOMAIN listings

\* JobListing.objects.get(pk=job_id, is_active=True) finds a row
ActiveLookup(id) == Exists(id) /\ listings[id].is_active

\* Mutant: the lookup of save filters on is_active like the lookup of apply.
SaveLookup_ActiveOnly(id) == id \in DOMAIN listings /\ listings[id].is_active

\* JobListing.objects.get(id=job_id) finds a row
SaveLookup(id) == Exists(id)

\* JobApplication.objects.filter(job=job, applicant=user).exists()
HasApplied(job, user) ==
    \E i \in DOMAIN applications :
        applications[i].job = job /\ applications[i].applicant = user

\* Mutant: the existence check of save is left out.
HasSaved_Never(job, user) == FALSE

\* SavedJob.objects.filter(job=job, user=user).exists()
HasSaved(job, user) ==
    \E i \in DOMAIN saved_jobs :
        saved_jobs[i].job = job /\ saved_jobs[i].user = user

\* Mutant: the (job, applicant) constraint is missing from the table.
ApplicationUniqueViolation_Unconstrained(job, user) == FALSE

\* unique_together = ["job", "applicant"]: the store rejects the INSERT
ApplicationUniqueViolation(job, user) ==
    \E i \in DOMAIN applications :
        <<applications[i].job, applications[i].applicant>> = <<job, user>>

\* unique_together = ["job", "user"]: the store rejects the INSERT
SavedUniqueViolation(job, user) ==
    \E i \in DOMAIN saved_jobs :
        <<saved_jobs[i].job, saved_jobs[i].user>> = <<job, user>>

\* Mutant: another member of STATUS_CHOICES is the default.
DefaultStatus_Reviewed == "REVIEWED"

\* status = CharField(..., default="PENDING")
DefaultStatus == "PENDING"

\* Mutant: company_name is derived only while it is still empty.
DerivedCompanyName_Once(row) ==
    IF row.company_name = Null THEN users[row.employer].company ELSE row.company_name

\* JobListing.save(): company_name is re-read from the employer on every save
DerivedCompanyName(row) == users[row.employer].company

\* company_name is NOT NULL: saving a listing whose employer has no company fails
ListingSaveFails(row) == DerivedCompanyName(row) = Null

\* Mutant: save() does not touch company_name.
SavedListing_AsGiven(row) == row

\* JobListing.save(): the row that is written
SavedListing(row) == [row EXCEPT !.company_name = DerivedCompanyName(row)]

\* on_delete=CASCADE on JobApplication.job and SavedJob.job
ApplicationsWithout(id) == SelectSeq(applications, LAMBDA a : a.job # id)
SavedJobsWithout(id) == SelectSeq(saved_jobs, LAMBDA s : s.job # id)

-----------------------------------------------------------------------------
\* Authorization policy (permissions.py).

IsAuthenticated(u) == u \in DOMAIN users

\* IsEmployerAndOwnerOrReadOnly.has_permission
HasPermission(u, action) ==
    IF action \in {"list", "retrieve"}
    THEN IsAuthenticated(u)
    ELSE IsAuthenticated(u) /\ users[u].user_type = "employer"

\* Mutant: the object check has no shortcut for safe methods.
HasObjectPermission_OwnerOnly(u, method, obj) ==
    obj.employer = u /\ users[u].user_type = "employer"

\* IsEmployerAndOwnerOrReadOnly.has_object_permission
HasObjectPermission(u, method, obj) ==
    IF method \in SAFE_METHODS
    THEN TRUE
    ELSE obj.employer = u /\ users[u].user_type = "employer"

\* Mutant: the role test is dropped, any authenticated user passes.
IsJobSeeker_AnyRole(u) == u \in UserIds

\* IsJobSeeker.has_permission
IsJobSeeker(u) == IsAuthenticated(u) /\ users[u].user_type = "job_seeker"

-----------------------------------------------------------------------------
\* set_password / check_password: what is stored is a hash of the raw password
Hash(raw) == <<"pbkdf2_sha256", raw>>

InitEmail(u) == CASE u = 1 -> "u1@example.com"
                  [] u = 2 -> "u2@example.com"
                  [] u = 3 -> "u3@example.com"

\* The store once two employers and a job seeker have been created and employer
\* 1 has posted listing 1; users 1 and 3 have logged in, user 2 has not; no
\* application, no saved job, no mail yet.
Init ==
    /\ users = [u \in UserIds |->
                  IF u \in Employers
                  THEN [user_type |-> "employer",
                        company |-> IF u = 1 THEN "Acme" ELSE "Globex",
                        skills |-> "python",
                        email |-> InitEmail(u), password |-> Hash("secret")]
                  ELSE [user_type |-> "job_seeker", company |-> Null,
                        skills |-> "python",
                        email |-> InitEmail(u), password |-> Hash("secret")]]
    /\ tokens = {[key |-> "key1", user |-> 1], [key |-> "key3", user |-> 3]}
    /\ next_user_id = 4
    /\ listings = (1 :> [title |-> "Backend Developer", company_name |-> "Acme",
                          employer |-> 1, is_active |-> TRUE])
    /\ next_job_id = 2
    /\ applications = << >>
    /\ saved_jobs = << >>
    /\ reqs = [r \in Slots |-> Idle]
    /\ outbox = << >>
    /\ last = NoResp
    /\ nops = 0

InFlight == Cardinality({r \in Slots : reqs[r].pc # "idle"})

\* A new request may start while every request in flight can still answer.
CanStart == nops + InFlight < MaxOps

Respond(r) == /\ last' = r
              /\ nops' = nops + 1


Same == UNCHANGED <<users, listings, next_job_id, applications, saved_jobs, reqs,
                    outbox, auth>>

-----------------------------------------------------------------------------
\* Listing store: JobListingViewSet (create, update, partial_update, destroy)
\* and the close_job management command.

\* What a client can put in a listing payload.  company_name and employer are
\* read-only fields of JobListingSerializer: a payload may carry them.
ListingPayloads ==
    {p \in [title : Titles \cup {Absent},
            is_active : {"true", "false", Absent},
            company_name : {Absent, "Initech"},
            employer : {0, 2}] : p.company_name = Absent <=> p.employer = 0}

\* serializer.is_valid(): title stands for the required text fields, which a
\* partial update may leave out
ListingPayloadValid(p, partial) == partial \/ p.title # Absent

\* The row a valid payload writes over `row`: only the writable fields are read.
ListingWrite(row, p) ==
    [row EXCEPT !.title = IF p.title = Absent THEN @ ELSE p.title,
                !.is_active = IF p.is_active = Absent THEN @
                              ELSE p.is_active = "true"]

\* Model defaults of a row under construction: is_active defaults to True
NewListing(u) ==
    [title |-> Absent, company_name |-> Null, employer |-> u, is_active |-> TRUE]

CreateListing(u) ==
    /\ CanStart
    /\ IF ~HasPermission(u, "create")
       THEN Respond(Resp("create_listing", u, 0, 403, Forbidden)) /\ Same
       ELSE \E p \in ListingPayloads :
            LET row == ListingWrite(NewListing(u), p) IN
            IF ~ListingPayloadValid(p, FALSE)
            THEN Respond(Resp("create_listing", u, 0, 400, Invalid)) /\ Same
            ELSE IF ListingSaveFails(row)
            THEN Respond(Resp("create_listing", u, 0, 500, IntegrityError)) /\ Same
            ELSE /\ next_job_id <= MaxListings
                 /\ listings' = (next_job_id :> SavedListing(row)) @@ listings
                 /\ next_job_id' = next_job_id + 1
                 /\ Respond(Resp("create_listing", u, next_job_id, 201, "created"))
                 /\ UNCHANGED <<auth, users, applications, saved_jobs, reqs, outbox>>

UpdateListing(u, id, method) ==
    /\ CanStart
    /\ method \in {"PUT", "PATCH"}
    /\ IF ~HasPermission(u, IF method = "PUT" THEN "update" ELSE "partial_update")
       THEN Respond(Resp("update_listing", u, id, 403, Forbidden)) /\ Same
       ELSE IF ~Exists(id)
       THEN Respond(Resp("update_listing", u, id, 404, NotFound)) /\ Same
       ELSE IF ~HasObjectPermission(u, method, listings[id])
       THEN Respond(Resp("update_listing", u, id, 403, Forbidden)) /\ Same
       ELSE \E p \in ListingPayloads :
            LET row == ListingWrite(listings[id], p) IN
            IF ~ListingPayloadValid(p, method = "PATCH")
            THEN Respond(Resp("update_listing", u, id, 400, Invalid)) /\ Same
            ELSE IF ListingSaveFails(row)
            THEN Respond(Resp("update_listing", u, id, 500, IntegrityError)) /\ Same
            ELSE /\ listings' = [listings EXCEPT ![id] = SavedListing(row)]
                 /\ Respond(Resp("update_listing", u, id, 200, "updated"))
                 /\ UNCHANGED <<auth, users, next_job_id, applications, saved_jobs,
                                reqs, outbox>>

DeleteListing(u, id) ==
    /\ CanStart
    /\ IF ~HasPermission(u, "destroy")
       THEN Respond(Resp("delete_listing", u, id, 403, Forbidden)) /\ Same
       ELSE IF ~Exists(id)
       THEN Respond(Resp("delete_listing", u, id, 404, NotFound)) /\ Same
       ELSE IF ~HasObjectPermission(u, "DELETE", listings[id])
       THEN Respond(Resp("delete_listing", u, id, 403, Forbidden)) /\ Same
       ELSE /\ listings' = [i \in DOMAIN listings \ {id} |-> listings[i]]
            /\ applications' = ApplicationsWithout(id)
            /\ saved_jobs' = SavedJobsWithout(id)
            /\ Respond(Resp("delete_listing", u, id, 204, "deleted"))
            /\ UNCHANGED <<auth, users, next_job_id, reqs, outbox>>

\* manage.py closejob <job_id>
CloseJob(id) ==
    /\ CanStart
    /\ IF ~Exists(id)
       THEN Respond(Resp("close_job", 0, id, 1, "CommandError")) /\ Same
       ELSE LET row == [listings[id] EXCEPT !.is_active = FALSE] IN
            IF ListingSaveFails(row)
            THEN Respond(Resp("close_job", 0, id, 1, IntegrityError)) /\ Same
            ELSE /\ listings' = [listings EXCEPT ![id] = SavedListing(row)]
                 /\ Respond(Resp("close_job", 0, id, 0, "closed"))
                 /\ UNCHANGED <<auth, users, next_job_id, applications, saved_jobs,
                                reqs, outbox>>

-----------------------------------------------------------------------------
\* Identity store: UserUpdateView with UserProfileSerializer.

\* What a client can put in a profile payload; it carries at most one of
\* company and skills.
UserPayloads ==
    {q \in [user_type : {"job_seeker", "employer", Absent},
            company : {"Globex", Null, Absent},
            skills : {"python", Absent}] : Absent \in {q.company, q.skills}}

\* Python truthiness of attrs.get(key): a missing key and None are falsy
Truthy(v) == v \notin {Absent, Null}

\* Mutant: validate() accepts every payload.
Validate_Unchecked(attrs) == TRUE

\* UserProfileSerializer.validate(attrs)
Validate(attrs) ==
    /\ ~(attrs.user_type = "job_seeker" /\ ~Truthy(attrs.skills))
    /\ ~(attrs.user_type = "employer" /\ ~Truthy(attrs.company))

\* serializer.is_valid(): user_type is a required field unless the update is
\* partial; skills and company are optional (blank=True, null=True)
UserPayloadValid(p, partial) ==
    /\ partial \/ p.user_type # Absent
    /\ Validate(p)

\* ModelSerializer.update: every key of validated_data is set on the instance
UserWrite(row, p) ==
    [row EXCEPT !.user_type = IF p.user_type = Absent THEN @ ELSE p.user_type,
                !.company = IF p.company = Absent THEN @ ELSE p.company,
                !.skills = IF p.skills = Absent THEN @ ELSE p.skills]

\* Mutant: the view keeps its class-level queryset, User.objects.all().
UpdatableUsers_All(u) == DOMAIN users

\* get_queryset(): User.objects.filter(id=request.user.id)
UpdatableUsers(u) == {t \in DOMAIN users : t = u}

UpdateUser(u, target, method) ==
    /\ CanStart
    /\ method \in {"PUT", "PATCH"}
    /\ IF target \notin UpdatableUsers(u)
       THEN Respond(Resp("update_user", u, target, 404, NotFound)) /\ Same
       ELSE \E p \in UserPayloads :
            IF ~UserPayloadValid(p, method = "PATCH")
            THEN Respond(Resp("update_user", u, target, 400, Invalid)) /\ Same
            ELSE /\ users' = [users EXCEPT ![target] = UserWrite(users[target], p)]
                 /\ Respond(Resp("update_user", u, target, 200, "updated"))
                 /\ UNCHANGED <<auth, listings, next_job_id, applications, saved_jobs,
                                reqs, outbox>>

-----------------------------------------------------------------------------
\* Application workflow: ApplyJobView.post and the post_save signal.

\* The apply payload: the uploaded resume and the serializer's writable `job`
\* field (0: not sent).  save(job=job) overrides the payload's job.
ApplyPayloads == [resume : BOOLEAN, job : {0} \cup ListingIds]

\* JobApplicationSerializer.is_valid(): resume and job are required, and job
\* must be the primary key of a stored listing
ApplyPayloadValid(p) == p.resume /\ p.job # 0 /\ Exists(p.job)

FreeSlot == CHOOSE r \in Slots : reqs[r].pc = "idle" /\
                \A q \in Slots : reqs[q].pc = "idle" => r <= q

InFlightReq(pc, op, u, job) == [pc |-> pc, op |-> op, user |-> u, job |-> job]

\* post: permission check, listing lookup, existence check, validation
ApplyBegin(u, job) ==
    /\ CanStart
    /\ \E r \in Slots : reqs[r].pc = "idle"
    /\ IF ~IsJobSeeker(u)
       THEN Respond(Resp("apply", u, job, 403, Forbidden)) /\ Same
       ELSE IF ~ActiveLookup(job)
       THEN Respond(Resp("apply", u, job, 404, JobNotFoundOrInactive)) /\ Same
       ELSE IF HasApplied(job, u)
       THEN Respond(Resp("apply", u, job, 400, AlreadyApplied)) /\ Same
       ELSE \E p \in ApplyPayloads :
            IF ~ApplyPayloadValid(p)
            THEN Respond(Resp("apply", u, job, 400, Invalid)) /\ Same
            ELSE /\ reqs' = [reqs EXCEPT ![FreeSlot] =
                                InFlightReq("apply_insert", "apply", u, job)]
                 /\ UNCHANGED <<auth, users, listings, next_job_id, applications,
                                saved_jobs, outbox, last, nops>>

\* send_mail(..., fail_silently=False) either hands the mail over or raises
MailOutcomes == {"sent", "employer_mail_fails", "applicant_mail_fails"}

Mail(to, kind, job, applicant) ==
    [to |-> to, kind |-> kind, job |-> job, applicant |-> applicant]

\* Mutant: each mail is sent on its own, a failure of the first does not stop
\* the second.
Notifications_BestEffort(job, applicant, outcome) ==
    LET toEmployer == Mail(listings[job].employer, "employer", job, applicant)
        toApplicant == Mail(applicant, "applicant", job, applicant)
    IN  CASE outcome = "sent" -> <<toEmployer, toApplicant>>
          [] outcome = "employer_mail_fails" -> <<toApplicant>>
          [] outcome = "applicant_mail_fails" -> <<toEmployer>>

\* Mutant: the applicant is notified before the employer.
Notifications_ApplicantFirst(job, applicant, outcome) ==
    LET toEmployer == Mail(listings[job].employer, "employer", job, applicant)
        toApplicant == Mail(applicant, "applicant", job, applicant)
    IN  CASE outcome = "sent" -> <<toApplicant, toEmployer>>
          [] outcome = "employer_mail_fails" -> << >>
          [] outcome = "applicant_mail_fails" -> <<toEmployer>>

\* send_application_notifications(created=True): the mails that left before
\* the handler returned or raised
Notifications(job, applicant, outcome) ==
    LET toEmployer == Mail(listings[job].employer, "employer", job, applicant)
        toApplicant == Mail(applicant, "applicant", job, applicant)
    IN  CASE outcome = "sent" -> <<toEmployer, toApplicant>>
          [] outcome = "employer_mail_fails" -> << >>
          [] outcome = "applicant_mail_fails" -> <<toEmployer>>

\* DATABASES[...]["ATOMIC_REQUESTS"]: the project settings are not part of the
\* sources; the value is Django's default, each statement commits on its own
AtomicRequests == FALSE

\* The request's transaction is rolled back when the view raises
RolledBack(outcome) == AtomicRequests /\ outcome # "sent"

\* The row serializer.save(applicant=request.user, job=job) inserts
NewApplication(job, u) == [job |-> job, applicant |-> u, status |-> DefaultStatus]

\* serializer.save(applicant=..., job=job): the INSERT, then the signal
ApplyInsert(r) ==
    /\ reqs[r].pc = "apply_insert"
    /\ reqs' = [reqs EXCEPT ![r] = Idle]
    /\ LET u == reqs[r].user
           job == reqs[r].job
       IN  IF ~Exists(job) \/ ApplicationUniqueViolation(job, u)
           THEN /\ Respond(Resp("apply", u, job, 500, IntegrityError))
                /\ UNCHANGED <<auth, users, listings, next_job_id, applications,
                               saved_jobs, outbox>>
           ELSE /\ \E outcome \in MailOutcomes :
                     /\ applications' = IF RolledBack(outcome) THEN applications
                                        ELSE Append(applications, NewApplication(job, u))
                     /\ outbox' = outbox \o Notifications(job, u, outcome)
                     /\ IF outcome = "sent"
                        THEN Respond(Resp("apply", u, job, 201, "created"))
                        ELSE Respond(Resp("apply", u, job, 500, MailError))
                /\ UNCHANGED <<auth, users, listings, next_job_id, saved_jobs>>

-----------------------------------------------------------------------------
\* Saved-job workflow: SaveJobView.post.

SaveBegin(u, job) ==
    /\ CanStart
    /\ \E r \in Slots : reqs[r].pc = "idle"
    /\ IF ~IsJobSeeker(u)
       THEN Respond(Resp("save", u, job, 403, Forbidden)) /\ Same
       ELSE IF ~SaveLookup(job)
       THEN Respond(Resp("save", u, job, 404, JobNotFound)) /\ Same
       ELSE IF HasSaved(job, u)
       THEN Respond(Resp("save", u, job, 400, AlreadySaved)) /\ Same
       ELSE /\ reqs' = [reqs EXCEPT ![FreeSlot] =
                           InFlightReq("save_insert", "save", u, job)]
            /\ UNCHANGED <<auth, users, listings, next_job_id, applications,
                           saved_jobs, outbox, last, nops>>

NewSavedJob(job, u) == [job |-> job, user |-> u]

\* SavedJob.objects.create(job=job, user=request.user)
SaveInsert(r) ==
    /\ reqs[r].pc = "save_insert"
    /\ reqs' = [reqs EXCEPT ![r] = Idle]
    /\ LET u == reqs[r].user
           job == reqs[r].job
       IN  IF ~Exists(job) \/ SavedUniqueViolation(job, u)
           THEN /\ Respond(Resp("save", u, job, 500, IntegrityError))
                /\ UNCHANGED <<auth, users, listings, next_job_id, applications,
                               saved_jobs, outbox>>
           ELSE /\ saved_jobs' = Append(saved_jobs, NewSavedJob(job, u))
                /\ Respond(Resp("save", u, job, 201, "saved"))
                /\ UNCHANGED <<auth, users, listings, next_job_id, applications, outbox>>

-----------------------------------------------------------------------------
\* Queries: AppliedJobsListView and SavedJobListView.

Reverse(q) == [i \in 1..Len(q) |-> q[Len(q) + 1 - i]]

\* Mutant: the queryset is ordered by created_at ascending.
ApplicationsFor_OldestFirst(u) == SelectSeq(applications, LAMBDA a : a.applicant = u)

\* AppliedJobsListView.get_queryset: filter(applicant=user).order_by("-created_at")
ApplicationsFor(u) == Reverse(SelectSeq(applications, LAMBDA a : a.applicant = u))

\* SavedJobListView.get_queryset: filter(user=user).order_by("-saved_at")
SavedFor(u) == Reverse(SelectSeq(saved_jobs, LAMBDA sj : sj.user = u))

\* The response of a list view: 200 with the rows of the queryset
ListResp(op, u, results) ==
    [op |-> op, user |-> u, job |-> 0, status |-> 200, detail |-> "ok",
     results |-> results]

\* GET /api/jobs/applied/
ListApplied(u) ==
    /\ CanStart
    /\ Respond(ListResp("list_applied", u, ApplicationsFor(u)))
    /\ Same

\* GET /api/jobs/saved/
ListSaved(u) ==
    /\ CanStart
    /\ IF ~IsJobSeeker(u)
       THEN Respond(Resp("list_saved", u, 0, 403, Forbidden)) /\ Same
       ELSE Respond(ListResp("list_saved", u, SavedFor(u))) /\ Same

-----------------------------------------------------------------------------
\* Credential verifier: UserRegisterView.create and CustomAuthToken.post.

InvalidCredentials == "Unable to log in with provided credentials."

\* BaseUserManager.normalize_email: the domain part is lowercased
NormalizeEmail(e) == IF e = "new@EXAMPLE.COM" THEN "new@example.com" ELSE e

\* The UniqueValidator of the email field: a row with exactly this email
EmailTaken(e) == \E u \in DOMAIN users : users[u].email = e

\* unique=True on User.email: the store rejects the INSERT
EmailUniqueViolation(e) == \E u \in DOMAIN users : users[u].email = e

\* What a client can put in a registration payload: a profile with an email
\* that is missing, in use, new, or new with an uppercase domain; the password
\* is left out only of a payload that is complete otherwise.
RegisterPayloads ==
    {p \in [email : {Absent, "u1@example.com", "new@example.com", "new@EXAMPLE.COM"},
            password : {Absent, "secret"},
            profile : {q \in UserPayloads : q.company # Null}] :
        p.password = Absent
        => /\ p.email = "new@example.com"
           /\ p.profile = [user_type |-> "employer", company |-> "Globex",
                           skills |-> Absent]}

\* serializer.is_valid() of a registration: email, password and user_type are
\* required, the email must not be in use, then validate() runs
RegisterPayloadValid(p) ==
    /\ p.email # Absent
    /\ p.password # Absent
    /\ ~EmailTaken(p.email)
    /\ UserPayloadValid(p.profile, FALSE)

\* create_user(**validated_data): an optional field left out is stored as NULL
NewUser(p) ==
    [user_type |-> p.profile.user_type,
     company |-> IF p.profile.company = Absent THEN Null ELSE p.profile.company,
     skills |-> IF p.profile.skills = Absent THEN Null ELSE p.profile.skills,
     email |-> NormalizeEmail(p.email),
     password |-> Hash(p.password)]

\* Token.generate_key(): a key no stored token has
FreshKey == CHOOSE k \in KeySet : \A t \in tokens : t.key # k

\* Mutant: get_or_create is replaced by create.
TokensAfterGetOrCreate_AlwaysCreate(u) == tokens \cup {[key |-> FreshKey, user |-> u]}

\* Token.objects.get_or_create(user=user): the table afterwards
TokensAfterGetOrCreate(u) ==
    IF \E t \in tokens : t.user = u
    THEN tokens
    ELSE tokens \cup {[key |-> FreshKey, user |-> u]}

\* The key the response carries: token.key of the row get_or_create returned
KeyReturned(u, table) == (CHOOSE t \in table : t.user = u).key

\* POST /api/user-profile/
Register(p) ==
    /\ CanStart
    /\ IF ~RegisterPayloadValid(p)
       THEN Respond(Resp("register", 0, 0, 400, Invalid)) /\ Same
       ELSE IF EmailUniqueViolation(NormalizeEmail(p.email))
       THEN Respond(Resp("register", 0, 0, 500, IntegrityError)) /\ Same
       ELSE /\ next_user_id \in NewUserIds
            /\ users' = (next_user_id :> NewUser(p)) @@ users
            /\ next_user_id' = next_user_id + 1
            /\ tokens' = TokensAfterGetOrCreate(next_user_id)
            /\ Respond(Resp("register", next_user_id, 0, 200,
                            KeyReturned(next_user_id, tokens')))
            /\ UNCHANGED <<listings, next_job_id, applications, saved_jobs,
                           reqs, outbox>>

LoginEmails == {"u2@example.com", "new@example.com", "nobody@example.com"}
LoginPasswords == {"secret", "wrong"}

\* django.contrib.auth.authenticate(username=email, password=password): the
\* users it can return
Authenticate(email, password) ==
    {u \in DOMAIN users : /\ users[u].email = email
                          /\ users[u].password = Hash(password)}

\* POST /api/login/
Login(email, password) ==
    /\ CanStart
    /\ IF Authenticate(email, password) = {}
       THEN Respond(Resp("login", 0, 0, 400, InvalidCredentials)) /\ Same
       ELSE \E u \in Authenticate(email, password) :
              /\ tokens' = TokensAfterGetOrCreate(u)
              /\ Respond(Resp("login", u, 0, 200, KeyReturned(u, tokens')))
              /\ UNCHANGED <<users, listings, next_job_id, applications,
                             saved_jobs, reqs, outbox, next_user_id>>

-----------------------------------------------------------------------------
Next ==
    \/ \E u \in DOMAIN users : CreateListing(u)
    \/ \E u \in DOMAIN users, id \in ListingIds, m \in {"PUT", "PATCH"} :
          UpdateListing(u, id, m)
    \/ \E u \in DOMAIN users, id \in ListingIds : DeleteListing(u, id)
    \/ \E id \in ListingIds : CloseJob(id)
    \/ \E u, t \in DOMAIN users, m \in {"PUT", "PATCH"} : UpdateUser(u, t, m)
    \/ \E u \in DOMAIN users, id \in ListingIds : ApplyBegin(u, id)
    \/ \E r \in Slots : ApplyInsert(r)
    \/ \E u \in DOMAIN users, id \in ListingIds : SaveBegin(u, id)
    \/ \E r \in Slots : SaveInsert(r)
    \/ \E p \in RegisterPayloads : Register(p)
    \/ \E e \in LoginEmails, pw \in LoginPasswords : Login(e, pw)
    \/ \E u \in DOMAIN users : ListApplied(u)
    \/ \E u \in DOMAIN users : ListSaved(u)

Spec == Init /\ [][Next]_vars

-----------------------------------------------------------------------------
\* The two list views, run against a store that already holds two listings and
\* two job seekers, together with the requests that write the rows they read.

\* Employer 1 has posted listings 1 and 2, and user 2 has switched to
\* job_seeker.
QueryInit ==
    /\ users = [u \in UserIds |->
                  [user_type |-> IF u = 1 THEN "employer" ELSE "job_seeker",
                   company |-> IF u = 1 THEN "Acme" ELSE IF u = 2 THEN "Globex" ELSE Null,
                   skills |-> "python",
                   email |-> InitEmail(u), password |-> Hash("secret")]]
    /\ listings = [id \in {1, 2} |->
                     [title |-> "Backend Developer", company_name |-> "Acme",
                      employer |-> 1, is_active |-> TRUE]]
    /\ next_job_id = 3
    /\ applications = << >>
    /\ saved_jobs = << >>
    /\ reqs = [r \in Slots |-> Idle]
    /\ outbox = << >>
    /\ last = NoResp
    /\ nops = 0
    /\ tokens = {[key |-> "key1", user |-> 1], [key |-> "key3", user |-> 3]}
    /\ next_user_id = 4

QueryNext ==
    \/ \E u \in DOMAIN users, id \in ListingIds : ApplyBegin(u, id)
    \/ \E r \in Slots : ApplyInsert(r)
    \/ \E u \in DOMAIN users, id \in ListingIds : SaveBegin(u, id)
    \/ \E r \in Slots : SaveInsert(r)
    \/ \E u \in DOMAIN users, id \in ListingIds : DeleteListing(u, id)
    \/ \E u \in DOMAIN users : ListApplied(u)
    \/ \E u \in DOMAIN users : ListSaved(u)

QuerySpec == QueryInit /\ [][QueryNext]_vars

-----------------------------------------------------------------------------
\* The authorization policy of the listing viewset as a function of the
\* identity, the viewset action, the HTTP verb and the target listing, applied
\* to every combination of them while identities change role.

MutationActions == {"update", "partial_update", "destroy"}
Methods == SAFE_METHODS \cup {"PUT", "PATCH", "DELETE"}

\* permission_classes = [IsAuthenticated, IsEmployerAndOwnerOrReadOnly]:
\* check_permissions, then check_object_permissions on the target
PolicyAllows(u, action, method, obj) ==
    /\ IsAuthenticated(u)
    /\ HasPermission(u, action)
    /\ HasObjectPermission(u, method, obj)

\* The decision for one request; the response records the verb.
CheckPolicy(u, id, action, method) ==
    /\ CanStart
    /\ Exists(id)
    /\ Respond(Resp(action, u, id,
                    IF PolicyAllows(u, action, method, listings[id]) THEN 200 ELSE 403,
                    method))
    /\ Same

PolicyNext ==
    \/ \E u \in DOMAIN users, id \in ListingIds, a \in MutationActions, m \in Methods :
          CheckPolicy(u, id, a, m)
    \/ \E u, t \in DOMAIN users, m \in {"PUT", "PATCH"} : UpdateUser(u, t, m)

PolicySpec == Init /\ [][PolicyNext]_vars

-----------------------------------------------------------------------------
\* Vocabulary of the properties, read off the rows themselves.

ApplicationRows(job, u) ==
    {i \in DOMAIN applications :
        applications[i].job = job /\ applications[i].applicant = u}

SavedRows(job, u) ==
    {i \in DOMAIN saved_jobs : saved_jobs[i].job = job /\ saved_jobs[i].user = u}

RoleOf(u) == users[u].user_type

Stored(id) == id \in DOMAIN listings

\* This step produced the response of an `op` request by u on job.
Answered(op, u, job) ==
    /\ nops' = nops + 1
    /\ last'.op = op /\ last'.user = u /\ last'.job = job

\* This step is the first step of an apply or save request by u on job: it
\* either answered at once or left the request in flight.
Begun(op, u, job) ==
    \/ Answered(op, u, job) /\ reqs' = reqs
    \/ /\ UNCHANGED <<last, nops>>
       /\ \E r \in Slots : /\ reqs[r].pc = "idle"
                           /\ reqs'[r].pc # "idle"
                           /\ reqs'[r].op = op
                           /\ reqs'[r].user = u /\ reqs'[r].job = job

DuplicateApplication(u, job) == Resp("apply", u, job, 400, AlreadyApplied)
AlreadySavedError(u, job) == Resp("save", u, job, 400, AlreadySaved)
NotFoundOrInactive(u, job) == Resp("apply", u, job, 404, JobNotFoundOrInactive)

-----------------------------------------------------------------------------
\* C1: in every reachable state, whatever the interleaving of requests, there
\* is at most one JobApplication row per (job, applicant) pair and at most one
\* SavedJob row per (job, user) pair.
C1_UniquePairs ==
    /\ \A i, j \in DOMAIN applications :
          (/\ applications[i].job = applications[j].job
           /\ applications[i].applicant = applications[j].applicant) => i = j
    /\ \A i, j \in DOMAIN saved_jobs :
          (/\ saved_jobs[i].job = saved_jobs[j].job
           /\ saved_jobs[i].user = saved_jobs[j].user) => i = j

\* Two apply requests for one pair both passed the existence check, one
\* inserted its row and the store rejected the other's INSERT.
C1_Witness ==
    /\ last.op = "apply"
    /\ last.detail = IntegrityError
    /\ Cardinality(ApplicationRows(last.job, last.user)) = 1

\* C2: a request whose INSERT the uniqueness constraint rejects ends with the
\* same client error (400, "already applied" / "already saved") as a request
\* the existence check rejects.
C2_RejectedInsertIsClientError ==
    [][\A r \in Slots :
         /\ (ApplyInsert(r) /\ ApplicationRows(reqs[r].job, reqs[r].user) # {})
               => last' = DuplicateApplication(reqs[r].user, reqs[r].job)
         /\ (SaveInsert(r) /\ SavedRows(reqs[r].job, reqs[r].user) # {})
               => last' = AlreadySavedError(reqs[r].user, reqs[r].job)]_vars

\* C3: two successive valid apply calls by a job seeker to an active listing
\* they have not applied to.  The INSERT of the first, running with no row for
\* the pair, adds exactly one row, with status PENDING, and answers 201 unless
\* a mail fails; the second is refused with "already applied" and creates
\* nothing; the pair has one row afterwards.
C3_ApplyTwice ==
    [][/\ \A r \in Slots :
            (/\ ApplyInsert(r)
             /\ Stored(reqs[r].job)
             /\ ApplicationRows(reqs[r].job, reqs[r].user) = {})
            => /\ applications' = Append(applications,
                     [job |-> reqs[r].job, applicant |-> reqs[r].user,
                      status |-> "PENDING"])
               /\ last'.op = "apply"
               /\ last'.status = 201 \/ last'.detail = MailError
       /\ \A u \in DOMAIN users, job \in ListingIds :
            (/\ RoleOf(u) = "job_seeker"
             /\ Stored(job) /\ listings[job].is_active
             /\ ApplicationRows(job, u) # {}
             /\ Begun("apply", u, job)
             /\ ApplyBegin(u, job))
            => /\ last' = DuplicateApplication(u, job)
               /\ nops' = nops + 1
               /\ UNCHANGED <<applications, outbox, reqs>>
               /\ Cardinality(ApplicationRows(job, u)) = 1]_vars

\* The second of two successive applies has just been refused.
C3_Witness ==
    /\ last = DuplicateApplication(3, 1)
    /\ \E i \in DOMAIN applications :
          applications[i] = [job |-> 1, applicant |-> 3, status |-> "PENDING"]
    /\ \A r \in Slots : reqs[r] = Idle

\* C4: two successive save calls by a job seeker for a stored listing.  The
\* INSERT of the first, running with no row for the pair, adds one SavedJob and
\* answers 201; the second is refused with "already saved" and changes nothing
\* in the store; saved_for(user) holds at most one record of the listing.
C4_SaveTwice ==
    [][/\ \A r \in Slots :
            (/\ SaveInsert(r)
             /\ Stored(reqs[r].job)
             /\ SavedRows(reqs[r].job, reqs[r].user) = {})
            => /\ saved_jobs' = Append(saved_jobs,
                     [job |-> reqs[r].job, user |-> reqs[r].user])
               /\ last' = Resp("save", reqs[r].user, reqs[r].job, 201, "saved")
       /\ \A u \in DOMAIN users, job \in ListingIds :
            (/\ RoleOf(u) = "job_seeker"
             /\ Stored(job)
             /\ SavedRows(job, u) # {}
             /\ Begun("save", u, job)
             /\ SaveBegin(u, job))
            => /\ last' = AlreadySavedError(u, job)
               /\ nops' = nops + 1
               /\ UNCHANGED <<users, listings, next_job_id, applications,
                              saved_jobs, reqs, outbox>>
               /\ Cardinality({i \in DOMAIN SavedFor(u)' :
                                  SavedFor(u)'[i].job = job}) <= 1]_vars

\* The second of two successive saves has just been refused.
C4_Witness ==
    /\ last = AlreadySavedError(3, 1)
    /\ Cardinality({i \in DOMAIN SavedFor(3) : SavedFor(3)[i].job = 1}) = 1
    /\ \A r \in Slots : reqs[r] = Idle

\* C5: apply by a job seeker to a listing id that is not stored or whose
\* is_active is false answers the one "not found or inactive" response in both
\* cases, creates no row and sends no mail, whatever the payload and whether
\* or not the user already has an application for the listing.
C5_ApplyNotFoundOrInactive ==
    [][\A u \in DOMAIN users, job \in ListingIds :
         (/\ RoleOf(u) = "job_seeker"
          /\ ~Stored(job) \/ ~listings[job].is_active
          /\ Begun("apply", u, job)
          /\ ApplyBegin(u, job))
         => /\ last' = NotFoundOrInactive(u, job)
            /\ nops' = nops + 1
            /\ UNCHANGED <<applications, outbox, reqs>>]_vars

\* A job seeker who already applied to listing 1 applied again after it was
\* closed and got "not found or inactive".
C5_Witness ==
    /\ last = NotFoundOrInactive(3, 1)
    /\ Stored(1) /\ ~listings[1].is_active
    /\ ApplicationRows(1, 3) # {}

\* C6: save looks at the listing's existence only.  A save by a job seeker
\* with no SavedJob for the listing passes the lookup whenever the listing is
\* stored, active or not, and its INSERT then stores the row and answers 201;
\* it answers "Job not found." only when the id is not stored.
C6_SaveIgnoresActiveFlag ==
    [][/\ \A u \in DOMAIN users, job \in ListingIds :
            (/\ RoleOf(u) = "job_seeker"
             /\ SavedRows(job, u) = {}
             /\ Begun("save", u, job)
             /\ SaveBegin(u, job))
            => IF Stored(job)
               THEN /\ \E r \in Slots :
                          /\ reqs[r] = Idle
                          /\ reqs' = [reqs EXCEPT ![r] =
                                InFlightReq("save_insert", "save", u, job)]
                    /\ UNCHANGED <<last, nops>>
               ELSE /\ last' = Resp("save", u, job, 404, JobNotFound)
                    /\ UNCHANGED <<saved_jobs, reqs>>
       /\ \A r \in Slots :
            (/\ SaveInsert(r)
             /\ Stored(reqs[r].job)
             /\ SavedRows(reqs[r].job, reqs[r].user) = {})
            => /\ last'.status = 201
               /\ \E i \in DOMAIN saved_jobs' :
                     saved_jobs'[i] = [job |-> reqs[r].job, user |-> reqs[r].user]]_vars

\* A closed listing has been saved: the save came after two other requests,
\* one of which made the listing inactive.
C6_Witness ==
    /\ last = Resp("save", 3, 1, 201, "saved")
    /\ Stored(1) /\ ~listings[1].is_active
    /\ SavedRows(1, 3) # {}

\* C7: role gating of the creating operations.  create-listing by a user
\* whose role is not employer answers 403 and adds no listing; apply and save
\* by a user whose role is not job_seeker answer 403 and add no row, whether or
\* not the target listing is stored.
C7_RoleGating ==
    [][/\ \A u \in DOMAIN users :
            (/\ RoleOf(u) # "employer"
             /\ last'.op = "create_listing" /\ last'.user = u
             /\ CreateListing(u))
            => /\ last' = Resp("create_listing", u, 0, 403, Forbidden)
               /\ UNCHANGED <<listings, next_job_id>>
       /\ \A u \in DOMAIN users, job \in ListingIds :
            /\ (RoleOf(u) # "job_seeker" /\ Begun("apply", u, job) /\ ApplyBegin(u, job))
               => /\ last' = Resp("apply", u, job, 403, Forbidden)
                  /\ UNCHANGED <<applications, outbox, reqs>>
            /\ (RoleOf(u) # "job_seeker" /\ Begun("save", u, job) /\ SaveBegin(u, job))
               => /\ last' = Resp("save", u, job, 403, Forbidden)
                  /\ UNCHANGED <<saved_jobs, reqs>>]_vars

\* An employer was refused an apply to a listing id that is not stored.
C7_Witness ==
    /\ last.op = "apply" /\ last.status = 403
    /\ RoleOf(last.user) = "employer"
    /\ ~Stored(last.job)

\* C8 (first half, which the code satisfies): update and delete of a stored
\* listing by any user other than its owner answer 403 and change nothing.
C8_NonOwnerForbidden ==
    [][\A u \in DOMAIN users, id \in ListingIds :
         /\ \A m \in {"PUT", "PATCH"} :
               (/\ Stored(id) /\ listings[id].employer # u
                /\ Answered("update_listing", u, id)
                /\ UpdateListing(u, id, m))
               => /\ last' = Resp("update_listing", u, id, 403, Forbidden)
                  /\ UNCHANGED <<users, listings, next_job_id, applications,
                                 saved_jobs, reqs, outbox>>
         /\ (/\ Stored(id) /\ listings[id].employer # u
             /\ Answered("delete_listing", u, id)
             /\ DeleteListing(u, id))
               => /\ last' = Resp("delete_listing", u, id, 403, Forbidden)
                  /\ UNCHANGED <<users, listings, next_job_id, applications,
                                 saved_jobs, reqs, outbox>>]_vars

\* C8: update and delete of a stored listing by any user other than its owner
\* answer 403 and change nothing, and an update by the owning employer whose
\* payload passes validation succeeds (200).
C8_OwnerOnlyUpdate ==
    [][\A u \in DOMAIN users, id \in ListingIds :
         /\ \A m \in {"PUT", "PATCH"} :
               /\ (/\ Stored(id) /\ listings[id].employer # u
                   /\ Answered("update_listing", u, id)
                   /\ UpdateListing(u, id, m))
                  => /\ last' = Resp("update_listing", u, id, 403, Forbidden)
                     /\ UNCHANGED <<users, listings, next_job_id, applications,
                                    saved_jobs, reqs, outbox>>
               /\ (/\ Stored(id) /\ listings[id].employer = u
                   /\ RoleOf(u) = "employer"
                   /\ Answered("update_listing", u, id)
                   /\ last'.detail # Invalid
                   /\ UpdateListing(u, id, m))
                  => last' = Resp("update_listing", u, id, 200, "updated")
         /\ (/\ Stored(id) /\ listings[id].employer # u
             /\ Answered("delete_listing", u, id)
             /\ DeleteListing(u, id))
               => /\ last' = Resp("delete_listing", u, id, 403, Forbidden)
                  /\ UNCHANGED <<users, listings, next_job_id, applications,
                                 saved_jobs, reqs, outbox>>]_vars

\* C9: a client cannot set company_name.  Right after every successful create
\* or update of a listing its company_name is the company its owner has at
\* that moment; a created listing is owned by the requesting user and an
\* updated one keeps its owner, whatever company_name or employer the payload
\* carried.
C9_CompanyNameDerived ==
    [][/\ \A u \in DOMAIN users :
            (last'.status = 201 /\ last'.user = u /\ CreateListing(u))
            => /\ DOMAIN listings' = DOMAIN listings \cup {last'.job}
               /\ last'.job \notin DOMAIN listings
               /\ listings'[last'.job].employer = u
               /\ listings'[last'.job].company_name = users'[u].company
       /\ \A u \in DOMAIN users, id \in ListingIds, m \in {"PUT", "PATCH"} :
            (/\ last'.status = 200
             /\ Answered("update_listing", u, id)
             /\ UpdateListing(u, id, m))
            => /\ listings'[id].employer = listings[id].employer
               /\ listings'[id].company_name =
                     users'[listings[id].employer].company]_vars

\* An employer who changed company updated a listing created under the old
\* company: the listing now carries the new company.
C9_Witness ==
    /\ last = Resp("update_listing", 1, 1, 200, "updated")
    /\ users[1].company = "Globex"
    /\ listings[1].company_name = "Globex"

\* C10 as claimed: in every reachable state every listing's company_name is
\* its owner's current company.
C10_CompanyNameAlwaysCurrent ==
    \A id \in DOMAIN listings :
        listings[id].company_name = users[listings[id].employer].company

CompanyNameCurrent(id) ==
    listings[id].company_name = users[listings[id].employer].company

\* C10 as amended: company_name is a copy taken at every save.  It equals the
\* owner's company right after every successful create, update or
\* administrative close of the listing, and a step can make the two differ
\* only by changing the owner's company (a self-update); the listing's owner
\* never changes.
C10_CompanyNameCurrentAtSave ==
    [][/\ \A id \in DOMAIN listings' \ DOMAIN listings : CompanyNameCurrent(id)'
       /\ \A id \in DOMAIN listings \cap DOMAIN listings' :
            /\ listings'[id].employer = listings[id].employer
            /\ listings'[id] # listings[id] => CompanyNameCurrent(id)'
            /\ (CloseJob(id) /\ last'.detail = "closed") => CompanyNameCurrent(id)'
            /\ (/\ CompanyNameCurrent(id)
                /\ users'[listings[id].employer].company
                      = users[listings[id].employer].company)
               => CompanyNameCurrent(id)']_vars

\* The administrative close of a listing whose owner had changed company
\* brought company_name up to date.
C10_Witness ==
    /\ last = Resp("close_job", 0, 1, 0, "closed")
    /\ users[1].company = "Globex"
    /\ listings[1].company_name = "Globex"
    /\ ~listings[1].is_active

\* The responses of the close command.
Closed(id) == Resp("close_job", 0, id, 0, "closed")
CloseNotFound(id) == Resp("close_job", 0, id, 1, "CommandError")

\* A JobApplication row for listing id that this step inserted.
ApplicationCreatedFor(id) ==
    /\ Len(applications') = Len(applications) + 1
    /\ applications'[Len(applications')].job = id

\* C11 (the part the code satisfies): a close that succeeds leaves the listing
\* stored and inactive and touches nothing else; a close of an id that is not
\* stored fails with CommandError and changes no state.
C11_CloseDeactivates ==
    [][\A id \in ListingIds :
         (Answered("close_job", 0, id) /\ CloseJob(id))
         => IF Stored(id)
            THEN /\ last' = Closed(id) \/ last'.detail = IntegrityError
                 /\ last' = Closed(id) => /\ Stored(id)'
                                          /\ ~listings'[id].is_active
                 /\ UNCHANGED <<users, applications, saved_jobs, reqs, outbox>>
            ELSE /\ last' = CloseNotFound(id)
                 /\ UNCHANGED <<users, listings, next_job_id, applications,
                                saved_jobs, reqs, outbox>>]_vars

\* C11: once close has succeeded on a listing, the listing is inactive and no
\* step creates an application for it -- stated for the step that follows the
\* successful close; a close of an absent id fails and changes no state.
C11_NoApplicationAfterClose ==
    [][\A id \in ListingIds :
         /\ last = Closed(id)
            => /\ Stored(id) => ~listings[id].is_active
               /\ ~ApplicationCreatedFor(id)
         /\ (~Stored(id) /\ Answered("close_job", 0, id) /\ CloseJob(id))
            => /\ last' = CloseNotFound(id)
               /\ UNCHANGED <<users, listings, next_job_id, applications,
                              saved_jobs, reqs, outbox>>]_vars

\* C12: a step that answers an apply with 201 has inserted the application
\* and appended exactly two mails about it, the first to the owner of the
\* listing and the second to the applicant; mails are appended only by a step
\* that inserted the application they are about; an apply refused with 403,
\* 404 or 400 appends no mail.
C12_NotificationsFollowApply ==
    [][/\ \A u \in DOMAIN users, job \in ListingIds :
            Answered("apply", u, job)
            => /\ last'.status = 201
                  => /\ ApplicationCreatedFor(job)
                     /\ applications'[Len(applications')].applicant = u
                     /\ outbox' = outbox \o
                           << [to |-> listings'[job].employer, kind |-> "employer",
                               job |-> job, applicant |-> u],
                              [to |-> u, kind |-> "applicant",
                               job |-> job, applicant |-> u] >>
               /\ last'.status \in {400, 403, 404} => outbox' = outbox
       /\ outbox' # outbox
            => /\ Len(outbox') > Len(outbox)
               /\ SubSeq(outbox', 1, Len(outbox)) = outbox
               /\ Len(applications') = Len(applications) + 1
               /\ \A i \in (Len(outbox) + 1)..Len(outbox') :
                     /\ outbox'[i].job = applications'[Len(applications')].job
                     /\ outbox'[i].applicant
                           = applications'[Len(applications')].applicant]_vars

\* A successful apply: the application is stored and the outbox holds the
\* owner's mail followed by the applicant's.
C12_Witness ==
    /\ last = Resp("apply", 3, 1, 201, "created")
    /\ ApplicationRows(1, 3) # {}
    /\ outbox = << [to |-> 1, kind |-> "employer", job |-> 1, applicant |-> 3],
                   [to |-> 3, kind |-> "applicant", job |-> 1, applicant |-> 3] >>

\* The role-specific field of a row is filled in.
RoleFieldPresent(row) ==
    /\ row.user_type \in {"job_seeker", "employer"}
    /\ row.user_type = "job_seeker" => row.skills \notin {Null, Absent, ""}
    /\ row.user_type = "employer" => row.company \notin {Null, Absent, ""}

\* A registration payload without a required field or without the field its
\* role requires.
Incomplete(p) ==
    \/ p.email = Absent
    \/ p.password = Absent
    \/ p.profile.user_type = Absent
    \/ p.profile.user_type = "job_seeker" /\ p.profile.skills \in {Absent, Null}
    \/ p.profile.user_type = "employer" /\ p.profile.company \in {Absent, Null}

\* C13: a register whose payload lacks a required field (email, password,
\* user_type) or the field its role requires answers 400 with validation
\* errors and stores neither a user nor a token -- no register step with
\* another outcome is the step of such a payload; hence every step that
\* stores a new user is a successful register and the new row has its
\* role-specific field filled in.
C13_RegisterValidates ==
    [][/\ (/\ Answered("register", last'.user, 0)
           /\ ~(/\ last' = Resp("register", 0, 0, 400, Invalid)
                /\ UNCHANGED <<users, tokens, next_user_id>>))
            => \A p \in RegisterPayloads : Incomplete(p) => ~Register(p)
       /\ \A n \in DOMAIN users' \ DOMAIN users :
            /\ last'.op = "register" /\ last'.status = 200 /\ last'.user = n
            /\ RoleFieldPresent(users'[n])]_vars

\* After one identity had registered, a registration without its role-specific
\* field (or another required field) was refused: the store still holds that
\* one new identity and one token for it.
C13_Witness ==
    /\ last = Resp("register", 0, 0, 400, Invalid)
    /\ DOMAIN users = UserIds \cup {4}
    /\ RoleFieldPresent(users[4])
    /\ Cardinality(tokens) = 3

\* The tokens of identity u, before and after the step.
TokensOf(u) == {t \in tokens : t.user = u}
TokensOfAfter(u) == {t \in tokens' : t.user = u}

\* C14: every identity has at most one token and no two tokens share a key;
\* a stored token is never removed or changed; a successful register answers
\* with the key of the stored token of the identity it created; a successful
\* login answers with the key of the identity's stored token, which is the
\* token the identity already had if it had one; a login with an unknown email
\* and a login with a wrong password get the same 400 answer and store no
\* token.
C14_TokenPerIdentity ==
    [][/\ \A t1, t2 \in tokens' :
            (t1.user = t2.user \/ t1.key = t2.key) => t1 = t2
       /\ tokens \subseteq tokens'
       /\ (last'.op = "register" /\ last'.status = 200 /\ nops' = nops + 1)
            => /\ last'.user \in DOMAIN users' \ DOMAIN users
               /\ TokensOfAfter(last'.user) = {[key |-> last'.detail, user |-> last'.user]}
       /\ Answered("login", last'.user, 0)
            => \A e \in LoginEmails, pw \in LoginPasswords :
                 Login(e, pw)
                 => IF \/ ~\E u \in DOMAIN users : users[u].email = e
                       \/ \E u \in DOMAIN users : /\ users[u].email = e
                                                 /\ users[u].password # Hash(pw)
                    THEN /\ last' = Resp("login", 0, 0, 400, InvalidCredentials)
                         /\ tokens' = tokens
                    ELSE /\ last'.status = 200
                         /\ users[last'.user].email = e
                         /\ TokensOfAfter(last'.user)
                               = {[key |-> last'.detail, user |-> last'.user]}
                         /\ TokensOf(last'.user) # {}
                               => TokensOfAfter(last'.user) = TokensOf(last'.user)]_vars

\* The identity that registered has logged in and was given its stored token.
C14_Witness ==
    /\ 4 \in DOMAIN users
    /\ last.op = "login" /\ last.status = 200 /\ last.user = 4
    /\ TokensOf(4) = {[key |-> last.detail, user |-> 4]}

\* res lists exactly the rows of table that belong to u (owner names the
\* field holding the owning identity), each once, the row created last first.
OwnRowsNewestFirst(res, table, owner, u) ==
    LET own == {i \in DOMAIN table : table[i][owner] = u}
        At(k) == CHOOSE i \in own : table[i] = res[k]
    IN  /\ Len(res) = Cardinality(own)
        /\ \A k \in DOMAIN res : \E i \in own : table[i] = res[k]
        /\ \A k1, k2 \in DOMAIN res : k1 < k2 => At(k1) > At(k2)

\* C15: the applied-jobs list answers identity u with exactly the applications
\* whose applicant is u, and the saved-jobs list answers a job seeker u with
\* exactly the saved jobs whose user is u (any other role is refused with 403
\* and gets no row), each list newest first; no response carries a row of
\* another identity; a list request changes nothing in the store.
C15_ListsAreScopedAndOrdered ==
    [][\A u \in DOMAIN users :
         /\ (Answered("list_applied", u, 0) /\ ListApplied(u))
            => /\ last'.status = 200
               /\ OwnRowsNewestFirst(last'.results, applications, "applicant", u)
               /\ \A k \in DOMAIN last'.results : last'.results[k].applicant = u
               /\ UNCHANGED <<users, listings, applications, saved_jobs, reqs,
                              outbox, tokens>>
         /\ (Answered("list_saved", u, 0) /\ ListSaved(u))
            => /\ IF RoleOf(u) = "job_seeker"
                  THEN /\ last'.status = 200
                       /\ OwnRowsNewestFirst(last'.results, saved_jobs, "user", u)
                       /\ \A k \in DOMAIN last'.results : last'.results[k].user = u
                  ELSE last' = Resp("list_saved", u, 0, 403, Forbidden)
               /\ UNCHANGED <<users, listings, applications, saved_jobs, reqs,
                              outbox, tokens>>]_vars

\* Job seeker 3 applied to listing 1 and then to listing 2: the list of 3
\* holds the two applications, the later one first.
C15_Witness ==
    /\ last.op = "list_applied" /\ last.user = 3
    /\ last.results = << [job |-> 2, applicant |-> 3, status |-> "PENDING"],
                         [job |-> 1, applicant |-> 3, status |-> "PENDING"] >>

\* C16: an update-identity request by identity u that targets the id of
\* another identity answers 404 and changes no identity (nor anything else in
\* the store); every step that changes the row of an identity t is a
\* successful update-identity request by t on its own id.
C16_SelfUpdateOnly ==
    [][\A t \in DOMAIN users :
         /\ \A u \in DOMAIN users \ {t}, m \in {"PUT", "PATCH"} :
               (Answered("update_user", u, t) /\ UpdateUser(u, t, m))
               => /\ last' = Resp("update_user", u, t, 404, NotFound)
                  /\ UNCHANGED <<users, listings, next_job_id, applications,
                                 saved_jobs, reqs, outbox, tokens, next_user_id>>
         /\ users'[t] # users[t]
               => last' = Resp("update_user", t, t, 200, "updated")]_vars

\* Employer 2 asked to update identity 1 after identity 1 had changed its own
\* company: the request was answered 404 and identity 1 kept what it wrote.
C16_Witness ==
    /\ last = Resp("update_user", 2, 1, 404, NotFound)
    /\ users[1].company = "Globex"
    /\ users[2].company = "Globex" /\ users[2].user_type = "employer"

\* The requester of the last policy decision is an employer and owns the
\* listing the decision was about.
LastIsEmployerAndOwner ==
    /\ RoleOf(last.user) = "employer"
    /\ listings[last.job].employer = last.user

C18_RowSurvivesMailFailure ==
    [][\A u \in DOMAIN users, job \in ListingIds :
         /\ (Answered("apply", u, job) /\ last'.detail = MailError)
            => /\ last'.status = 500
               /\ applications' = Append(applications,
                     [job |-> job, applicant |-> u, status |-> "PENDING"])
               /\ \/ outbox' = outbox
                  \/ outbox' = Append(outbox,
                        [to |-> listings[job].employer, kind |-> "employer",
                         job |-> job, applicant |-> u])
         /\ (/\ last = Resp("apply", u, job, 500, MailError)
             /\ RoleOf(u) = "job_seeker"
             /\ Stored(job) /\ listings[job].is_active
             /\ Begun("apply", u, job)
             /\ ApplyBegin(u, job))
            => /\ ApplicationRows(job, u) # {}
               /\ last' = DuplicateApplication(u, job)
               /\ UNCHANGED <<applications, outbox, reqs>>]_vars

\* Job seeker 3 applied to listing 1, the employer mail failed, and the retry
\* was refused: one application is stored and no mail was ever sent.
C18_Witness ==
    /\ last = DuplicateApplication(3, 1)
    /\ Cardinality(ApplicationRows(1, 3)) = 1
    /\ outbox = << >>
    /\ nops = 2

=============================================================================
